---- MODULE Spec2Model ----
(***************************************************************************)
(* Network-Flow-Calculator: the max-flow solver core (solve_max_flow) and  *)
(* the worker that calls it.  Two programs live in the repository:         *)
(*   app = "src"  : src/src/network_flow_app.py (aggregates duplicates,    *)
(*                  rejects negative capacities, explicit Edmonds-Karp)    *)
(*   app = "root" : src/network_flow_app.py (adds every triple to the      *)
(*                  graph as it comes; the library's default flow function *)
(*                  makes the same three checks and returns the same flow  *)
(*                  value, and is followed here through the same steps)    *)
(* The library calls (networkx DiGraph.add_edge, build_residual_network,   *)
(* edmonds_karp, build_flow_dict) are modelled by what they do, with       *)
(* Python's insertion-ordered dictionaries as sequences.                   *)
(* The newer program hands its results to the Tk main loop with            *)
(* root.after; the callbacks waiting there (update_ui_after_solve, the     *)
(* animate_step chain of each solve, the error boxes) are the set timers,  *)
(* run in any order by the main-loop actions of SpecAnim.                  *)
(***************************************************************************)
EXTENDS Integers, Sequences, FiniteSets, TLC

VARIABLES app, edges, source, sink, pc, cap_map, G, R, flow_value,
          flow_dict, error, path, bottleneck, rounds,
          solve_no,        \* how many times start_solve_thread has run
          timers,          \* the callbacks handed to root.after, not yet run
          animate_index,   \* self._animate_index
          canvas,          \* the highlights drawn since the last ax.clear()
          shown_solve,     \* the solve whose graph the canvas shows, 0: none
          shown_edges      \* list(G.edges()) of that solve

\* the UI state that only the Tk main loop touches
animVars == <<solve_no, animate_index, canvas, shown_solve, shown_edges>>

vars == <<app, edges, source, sink, pc, cap_map, G, R, flow_value,
          flow_dict, error, path, bottleneck, rounds, timers, animVars>>

(* ------------------------------ bounds --------------------------------- *)
MaxLen == 2        \* longest enumerated edge list
MaxCap == 2        \* largest enumerated capacity
MaxSolves == 2     \* how many times Solve is clicked

(* ------------------------------ universe ------------------------------- *)
AllNodes == {"S", "A", "B", "C", "D", "T"}
Pairs == AllNodes \X AllNodes
None == "-"        \* Python None
NoValue == 0 - 1   \* flow_value before the flow function has set it
\* flow_dict before build_flow_dict has built it
NoDict == [a \in {<<None, None>>} |-> 0]
Absent == "?"      \* key not in a dict

\* the ordered pairs the enumerated edge lists draw from
GenPairs == {<<"S", "A">>, <<"A", "T">>, <<"S", "T">>, <<"T", "A">>,
             <<"A", "S">>, <<"A", "A">>}
GenCaps == (0 .. MaxCap) \cup {0 - 1}
GenTriples == {<<p[1], p[2], c>> : p \in GenPairs, c \in GenCaps}

RECURSIVE SeqsUpTo(_, _)
SeqsUpTo(S, n) ==
    IF n = 0 THEN {<<>>}
    ELSE LET shorter == SeqsUpTo(S, n - 1)
         IN shorter \cup {Append(s, x) : s \in {t \in shorter : Len(t) = n - 1}, x \in S}

\* the spec's concrete scenario
DiamondNet == << <<"S", "A", 3>>, <<"S", "B", 2>>, <<"A", "T", 2>>,
                 <<"B", "T", 3>>, <<"A", "B", 1>> >>
\* both directions of A-B declared; the only S-T path runs over (B,A)
AntiParallelNet == << <<"A", "B", 1>>, <<"S", "B", 1>>, <<"B", "A", 1>>,
                      <<"A", "T", 1>> >>
\* the second shortest path cancels the flow the first one put on (A,B)
CancelNet == << <<"S", "A", 1>>, <<"A", "B", 1>>, <<"B", "T", 1>>,
                <<"S", "C", 1>>, <<"C", "B", 1>>, <<"A", "D", 1>>,
                <<"D", "T", 1>> >>
\* the spec's duplicate-aggregation example, both ways of declaring it
SplitNet == << <<"S", "A", 3>>, <<"A", "T", 9>>, <<"S", "A", 5>> >>
MergedNet == << <<"S", "A", 8>>, <<"A", "T", 9>> >>
\* large capacities around a unit cross arc: two augmentations whatever the size
BigCapNet == << <<"S", "A", 100>>, <<"S", "B", 100>>, <<"A", "B", 1>>,
                <<"A", "T", 100>>, <<"B", "T", 100>> >>
\* duplicates whose last entry is the smallest
DupNet == << <<"S", "T", 2>>, <<"S", "T", 1>> >>
Fixtures == {DiamondNet, AntiParallelNet, CancelNet, BigCapNet, SplitNet,
             MergedNet, DupNet}

Inputs == SeqsUpTo(GenTriples, MaxLen) \cup Fixtures
Queries == {<<"S", "T">>, <<"S", "S">>, <<"S", "">>}

(* ------------------------------ helpers -------------------------------- *)
InSeq(x, s) == \E i \in 1 .. Len(s) : s[i] = x
AppendNew(s, x) == IF InSeq(x, s) THEN s ELSE Append(s, x)

Min(a, b) == IF a <= b THEN a ELSE b

\* sum(attr[capacity] for u, v, attr in edge_list)
RECURSIVE SumCaps(_, _, _)
SumCaps(g, el, i) ==
    IF i > Len(el) THEN 0 ELSE g.capacity[el[i]] + SumCaps(g, el, i + 1)

EmptyAdj == [n \in AllNodes |-> <<>>]
ZeroPairs == [p \in Pairs |-> 0]

(* ---------------- messages of the exceptions raised -------------------- *)
InvalidCapacity == "Capacities must be non-negative"
UnknownNode == "node not in graph"
SourceEqualsSink == "source and sink are the same node"
Unbounded == "Infinite capacity path, flow unbounded above."
InputError == "Start and End nodes must be specified!"

\* e evaluated once and its value handed to Body: what a local variable of
\* the code is (TLC re-evaluates a LET or a parameter wherever it is used
\* when it computes ENABLED)
Bind(e, Body(_)) == CHOOSE y \in {Body(x) : x \in {e}} : TRUE

(* ---------------- Capacity aggregation (app = "src") ------------------- *)
\* cap_map is a dict keyed by (u, v): a sequence of <<u, v, capacity>> in
\* first-insertion order
CapGet(cm, u, v) ==
    IF \E i \in 1 .. Len(cm) : cm[i][1] = u /\ cm[i][2] = v
    THEN (CHOOSE e \in {cm[i] : i \in 1 .. Len(cm)} : e[1] = u /\ e[2] = v)[3]
    ELSE 0

CapPut(cm, u, v, c) ==
    IF \E i \in 1 .. Len(cm) : cm[i][1] = u /\ cm[i][2] = v
    THEN [i \in 1 .. Len(cm) |->
            IF cm[i][1] = u /\ cm[i][2] = v THEN <<u, v, c>> ELSE cm[i]]
    ELSE Append(cm, <<u, v, c>>)

\* for u, v, cap in edges: raise on cap < 0, else cap_map[(u,v)] += cap
RECURSIVE Aggregate(_, _, _)
Aggregate(es, i, cm0) ==
    Bind(cm0, LAMBDA cm :
        IF i > Len(es) THEN [raised |-> FALSE, cap_map |-> cm]
        ELSE IF es[i][3] < 0 THEN [raised |-> TRUE, cap_map |-> cm]
        ELSE Aggregate(es, i + 1,
                       CapPut(cm, es[i][1], es[i][2],
                              CapGet(cm, es[i][1], es[i][2]) + es[i][3])))

(* ---------------- networkx DiGraph ------------------------------------- *)
EmptyDiGraph == [node |-> <<>>, adj |-> EmptyAdj, capacity |-> ZeroPairs]

\* G.add_edge(u, v, capacity=c): u then v become nodes, v joins u's
\* successors once, and the capacity attribute is (over)written
DiGraphAddEdge(g, u, v, c) ==
    [node |-> AppendNew(AppendNew(g.node, u), v),
     adj |-> [g.adj EXCEPT ![u] = AppendNew(@, v)],
     capacity |-> [g.capacity EXCEPT ![<<u, v>>] = c]]

\* for ... in <triples>: G.add_edge(u, v, capacity=capacity)
RECURSIVE AddEdges(_, _, _)
AddEdges(g0, triples, i) ==
    Bind(g0, LAMBDA g :
        IF i > Len(triples) THEN g
        ELSE AddEdges(DiGraphAddEdge(g, triples[i][1], triples[i][2], triples[i][3]),
                      triples, i + 1))

\* the arcs <<u, v>> for u in q, v in adj[u], in the order of the two loops
RECURSIVE ArcsFrom(_, _, _)
ArcsFrom(adj, q, i) ==
    IF i > Len(q) THEN <<>>
    ELSE LET u == q[i]
             out == IF Len(adj[u]) = 0 THEN <<>>
                    ELSE [k \in 1 .. Len(adj[u]) |-> <<u, adj[u][k]>>]
         IN out \o ArcsFrom(adj, q, i + 1)

\* G.edges(): nodes in insertion order, each node's successors in order
GEdges(g) == ArcsFrom(g.adj, g.node, 1)
EdgeSet(g) == {<<u, v>> \in Pairs : InSeq(v, g.adj[u])}
NodeSet(g) == {g.node[i] : i \in 1 .. Len(g.node)}

(* ---------------- networkx build_residual_network ---------------------- *)
\* edges with positive capacity, self loops excluded
EdgeList(g) == SelectSeq(GEdges(g), LAMBDA e : e[1] # e[2] /\ g.capacity[e] > 0)

\* three times the sum of the capacities of el, or 1 if that is zero
SimulatedInf(g, el) ==
    LET total == SumCaps(g, el, 1)
    IN IF total = 0 THEN 1 ELSE 3 * total

\* R.add_edge(u, v, capacity=c)
RAddEdge(r, u, v, c) ==
    [r EXCEPT !.succ = [@ EXCEPT ![u] = AppendNew(@, v)],
              !.pred = [@ EXCEPT ![v] = AppendNew(@, u)],
              !.capacity = [@ EXCEPT ![<<u, v>>] = c]]

RHasEdge(r, u, v) == InSeq(v, r.succ[u])

\* both (u, v) and (v, u) enter R when the first of them is visited
RECURSIVE AddResidualArcs(_, _, _, _)
AddResidualArcs(r0, g, el, i) ==
    Bind(r0, LAMBDA r :
        IF i > Len(el) THEN r
        ELSE LET u == el[i][1]
                 v == el[i][2]
                 c == Min(g.capacity[el[i]], r.inf)
             IN AddResidualArcs(
                    IF ~RHasEdge(r, u, v)
                    THEN RAddEdge(RAddEdge(r, u, v, c), v, u, 0)
                    ELSE [r EXCEPT !.capacity = [@ EXCEPT ![<<u, v>>] = c]],
                    g, el, i + 1))

EmptyResidual ==
    [node |-> <<>>, succ |-> EmptyAdj, pred |-> EmptyAdj,
     capacity |-> ZeroPairs, flow |-> ZeroPairs, inf |-> 0]

build_residual_network(g) ==
    Bind(EdgeList(g), LAMBDA el :
        AddResidualArcs([EmptyResidual EXCEPT !.node = g.node,
                                              !.inf = SimulatedInf(g, el)],
                        g, el, 1))

\* attr["capacity"] - attr["flow"] of the arc (u, v)
Residual(r, u, v) == r.capacity[<<u, v>>] - r.flow[<<u, v>>]

(* ---------------- networkx edmonds_karp_core --------------------------- *)
NoKeys == [n \in AllNodes |-> Absent]

\* mutant: the sweep also follows arcs with no residual left (<= for <)
RECURSIVE ScanForward_Saturated(_, _, _, _)
ScanForward_Saturated(r, arcs, i, st0) ==
    Bind(st0, LAMBDA st :
        IF i > Len(arcs) THEN st
        ELSE LET u == arcs[i][1]
                 v == arcs[i][2]
             IN IF st.pred[v] = Absent /\ r.flow[<<u, v>>] <= r.capacity[<<u, v>>]
                THEN IF st.succ[v] # Absent
                     THEN [st EXCEPT !.meet = v, !.pred[v] = u]
                     ELSE ScanForward_Saturated(r, arcs, i + 1,
                              [st EXCEPT !.pred[v] = u, !.q = Append(@, v)])
                ELSE ScanForward_Saturated(r, arcs, i + 1, st))

\* one sweep of the source side: for u in q_s: for v in R_succ[u]
\* st = [meet, pred, succ, q]
RECURSIVE ScanForward(_, _, _, _)
ScanForward(r, arcs, i, st0) ==
    Bind(st0, LAMBDA st :
        IF i > Len(arcs) THEN st
        ELSE LET u == arcs[i][1]
                 v == arcs[i][2]
             IN IF st.pred[v] = Absent /\ r.flow[<<u, v>>] < r.capacity[<<u, v>>]
                THEN IF st.succ[v] # Absent
                     THEN [st EXCEPT !.meet = v, !.pred[v] = u]
                     ELSE ScanForward(r, arcs, i + 1,
                                      [st EXCEPT !.pred[v] = u, !.q = Append(@, v)])
                ELSE ScanForward(r, arcs, i + 1, st))

\* one sweep of the sink side: for u in q_t: for v in R_pred[u]
RECURSIVE ScanBackward(_, _, _, _)
ScanBackward(r, arcs, i, st0) ==
    Bind(st0, LAMBDA st :
        IF i > Len(arcs) THEN st
        ELSE LET u == arcs[i][1]
                 v == arcs[i][2]
             IN IF st.succ[v] = Absent /\ r.flow[<<v, u>>] < r.capacity[<<v, u>>]
                THEN IF st.pred[v] # Absent
                     THEN [st EXCEPT !.meet = v, !.succ[v] = u]
                     ELSE ScanBackward(r, arcs, i + 1,
                                       [st EXCEPT !.succ[v] = u, !.q = Append(@, v)])
                ELSE ScanBackward(r, arcs, i + 1, st))

\* the while True loop; a result whose meet is None is "no path"
RECURSIVE SearchLoop(_, _, _, _, _)
SearchLoop(r, pred, succ, q_s, q_t) ==
    LET start == [meet |-> None, pred |-> pred, succ |-> succ, q |-> <<>>]
    IN IF Len(q_s) <= Len(q_t)
       THEN Bind(ScanForward(r, ArcsFrom(r.succ, q_s, 1), 1, start), LAMBDA res :
                IF res.meet # None \/ res.q = <<>> THEN res
                ELSE SearchLoop(r, res.pred, res.succ, res.q, q_t))
       ELSE Bind(ScanBackward(r, ArcsFrom(r.pred, q_t, 1), 1, start), LAMBDA res :
                IF res.meet # None \/ res.q = <<>> THEN res
                ELSE SearchLoop(r, res.pred, res.succ, q_s, res.q))

bidirectional_bfs(r, s, t) ==
    SearchLoop(r, [NoKeys EXCEPT ![s] = None], [NoKeys EXCEPT ![t] = None],
               <<s>>, <<t>>)

RECURSIVE TracePred(_, _, _)
TracePred(pred, u, s) ==
    IF u = s THEN <<s>> ELSE Append(TracePred(pred, pred[u], s), u)

RECURSIVE TraceSucc(_, _, _)
TraceSucc(succ, u, t) ==
    IF u = t THEN <<>> ELSE <<succ[u]>> \o TraceSucc(succ, succ[u], t)

\* the path through the meeting node v: s ... v ... t
PathThrough(res, s, t) ==
    TracePred(res.pred, res.meet, s) \o TraceSucc(res.succ, res.meet, t)

\* min over the path's arcs of capacity - flow, starting from inf
RECURSIVE PathBottleneck(_, _, _, _)
PathBottleneck(r, p, i, acc0) ==
    Bind(acc0, LAMBDA acc :
        IF i >= Len(p) THEN acc
        ELSE PathBottleneck(r, p, i + 1, Min(acc, Residual(r, p[i], p[i + 1]))))

OnPath(p, u, v) == \E i \in 1 .. Len(p) - 1 : p[i] = u /\ p[i + 1] = v

\* mutant: the loop stops one arc short of the sink
augment_SkipLast(r, p, f) ==
    [r EXCEPT !.flow =
        [a \in Pairs |->
            @[a] + (IF \E i \in 1 .. Len(p) - 2 : p[i] = a[1] /\ p[i + 1] = a[2]
                    THEN f ELSE 0)
                 - (IF \E i \in 1 .. Len(p) - 2 : p[i] = a[2] /\ p[i + 1] = a[1]
                    THEN f ELSE 0)]]

\* mutant: the reverse arc's flow is not decreased
augment_NoReverse(r, p, f) ==
    [r EXCEPT !.flow =
        [a \in Pairs |-> @[a] + (IF OnPath(p, a[1], a[2]) THEN f ELSE 0)]]

\* R_succ[u][v]["flow"] += flow; R_succ[v][u]["flow"] -= flow along the path
augment(r, p, f) ==
    [r EXCEPT !.flow =
        [a \in Pairs |->
            @[a] + (IF OnPath(p, a[1], a[2]) THEN f ELSE 0)
                 - (IF OnPath(p, a[2], a[1]) THEN f ELSE 0)]]

(* ---------------- networkx build_flow_dict ----------------------------- *)
\* mutant: R's flow attribute is copied whatever its sign
build_flow_dict_Raw(g, r) ==
    LET arcs == {a \in Pairs : InSeq(a[2], r.succ[a[1]])}
    IN [a \in EdgeSet(g) \cup arcs |-> IF a \in arcs THEN r.flow[a] ELSE 0]

\* flow_dict[u] = {v: 0 for v in G[u]}, updated with R's arcs of flow > 0
build_flow_dict(g, r) ==
    LET positive == {a \in Pairs : InSeq(a[2], r.succ[a[1]]) /\ r.flow[a] > 0}
    IN [a \in EdgeSet(g) \cup positive |-> IF a \in positive THEN r.flow[a] ELSE 0]

(* ---------------- state ------------------------------------------------ *)
TypeOK ==
    /\ app \in {"src", "root"}
    /\ edges \in Inputs
    /\ pc \in {"ready", "solving", "aggregated", "graph", "augmenting",
               "saturated", "returned", "raised", "shown", "error_shown"}
    /\ rounds \in Nat

InitApp(a) ==
    /\ app = a
    /\ edges \in Inputs
    /\ \E q \in Queries : source = q[1] /\ sink = q[2]
    /\ pc = "ready"
    /\ cap_map = <<>>
    /\ G = EmptyDiGraph
    /\ R = EmptyResidual
    /\ flow_value = NoValue
    /\ flow_dict = NoDict
    /\ error = None
    /\ path = <<>>
    /\ bottleneck = 0
    /\ rounds = 0
    /\ solve_no = 1
    /\ timers = {}
    /\ animate_index = 0
    /\ canvas = <<>>
    /\ shown_solve = 0
    /\ shown_edges = <<>>

Init == InitApp("src")
InitRoot == InitApp("root")

(* ---------------- root.after ------------------------------------------- *)
\* a callback waiting in the Tk main loop: the function, the solve whose
\* worker or animation scheduled it, and the graph edges its closure holds
ErrorBox(n) == [fn |-> "showerror", solve |-> n, edges |-> <<>>]
UpdateUi(n, g) == [fn |-> "update_ui_after_solve", solve |-> n, edges |-> GEdges(g)]
AnimateStep(n, el) == [fn |-> "animate_step", solve |-> n, edges |-> el]

\* self.root.after(ms, callback); the older program has no main-loop
\* hand-over and shows its boxes and results from the worker thread itself
After(cb) == IF app = "src" THEN timers \cup {cb} ELSE timers

(* ---------------- solve_flow_worker / solve_flow ----------------------- *)
\* reads the two entries; an empty one is an input error and no solve
WorkerStart ==
    /\ pc = "ready"
    /\ IF source = "" \/ sink = ""
       THEN /\ pc' = "error_shown" /\ error' = InputError
            /\ timers' = After(ErrorBox(solve_no))
       ELSE pc' = "solving" /\ error' = error /\ timers' = timers
    /\ UNCHANGED <<animVars, app, edges, source, sink, cap_map, G, R, flow_value,
                   flow_dict, path, bottleneck, rounds>>

(* ---------------- solve_max_flow --------------------------------------- *)
\* src: the aggregation loop, raising ValueError at the first negative
AggregateCapacities ==
    /\ pc = "solving" /\ app = "src"
    /\ \E res \in {Aggregate(edges, 1, <<>>)} :
          /\ cap_map' = res.cap_map
          /\ IF res.raised
             THEN pc' = "raised" /\ error' = InvalidCapacity
             ELSE pc' = "aggregated" /\ error' = error
    /\ UNCHANGED <<timers, animVars, app, edges, source, sink, G, R, flow_value, flow_dict,
                   path, bottleneck, rounds>>

\* src: for (u, v), capacity in cap_map.items(): G.add_edge(...)
BuildGraph ==
    /\ pc = "aggregated" /\ app = "src"
    /\ G' = AddEdges(EmptyDiGraph, cap_map, 1)
    /\ pc' = "graph"
    /\ UNCHANGED <<timers, animVars, app, edges, source, sink, cap_map, R, flow_value, flow_dict,
                   error, path, bottleneck, rounds>>

\* root: for u, v, capacity in edges: G.add_edge(...), no check, no summing
BuildGraphRoot ==
    /\ pc = "solving" /\ app = "root"
    /\ G' = AddEdges(EmptyDiGraph, edges, 1)
    /\ pc' = "graph"
    /\ UNCHANGED <<timers, animVars, app, edges, source, sink, cap_map, R, flow_value, flow_dict,
                   error, path, bottleneck, rounds>>

\* mutant: source = sink is not checked
EnterFlowFunc_NoSameCheck ==
    /\ pc = "graph"
    /\ IF source \notin NodeSet(G) \/ sink \notin NodeSet(G)
       THEN pc' = "raised" /\ error' = UnknownNode /\ UNCHANGED <<R, flow_value>>
       ELSE /\ R' = build_residual_network(G)
            /\ flow_value' = 0
            /\ pc' = "augmenting"
            /\ error' = error
    /\ UNCHANGED <<timers, animVars, app, edges, source, sink, cap_map, G, flow_dict, path,
                   bottleneck, rounds>>

\* mutant: membership of source and sink in G is not checked
EnterFlowFunc_NoNodeCheck ==
    /\ pc = "graph"
    /\ IF source = sink
       THEN pc' = "raised" /\ error' = SourceEqualsSink /\ UNCHANGED <<R, flow_value>>
       ELSE /\ R' = build_residual_network(G)
            /\ flow_value' = 0
            /\ pc' = "augmenting"
            /\ error' = error
    /\ UNCHANGED <<timers, animVars, app, edges, source, sink, cap_map, G, flow_dict, path,
                   bottleneck, rounds>>

\* nx.maximum_flow entering the flow function: the three checks, then the
\* residual network with every flow reset to 0
EnterFlowFunc ==
    /\ pc = "graph"
    /\ IF source \notin NodeSet(G) \/ sink \notin NodeSet(G)
       THEN pc' = "raised" /\ error' = UnknownNode /\ UNCHANGED <<R, flow_value>>
       ELSE IF source = sink
       THEN pc' = "raised" /\ error' = SourceEqualsSink /\ UNCHANGED <<R, flow_value>>
       ELSE /\ R' = build_residual_network(G)
            /\ flow_value' = 0
            /\ pc' = "augmenting"
            /\ error' = error
    /\ UNCHANGED <<timers, animVars, app, edges, source, sink, cap_map, G, flow_dict, path,
                   bottleneck, rounds>>

\* mutant: flow_value = augment(path) for flow_value += augment(path)
AugmentStep_Assign ==
    /\ pc = "augmenting"
    /\ \E res \in {bidirectional_bfs(R, source, sink)} :
          /\ res.meet # None
          /\ \E p \in {PathThrough(res, source, sink)} :
             \E f \in {PathBottleneck(R, p, 1, R.inf)} :
                /\ path' = p
                /\ bottleneck' = f
                /\ IF f * 2 > R.inf
                   THEN /\ pc' = "raised" /\ error' = Unbounded
                        /\ UNCHANGED <<R, flow_value, rounds>>
                   ELSE /\ R' = augment(R, p, f)
                        /\ flow_value' = f
                        /\ rounds' = rounds + 1
                        /\ UNCHANGED <<pc, error>>
    /\ UNCHANGED <<timers, animVars, app, edges, source, sink, cap_map, G, flow_dict>>

\* one pass of the while loop that finds a path and augments along it
AugmentStep ==
    /\ pc = "augmenting"
    /\ \E res \in {bidirectional_bfs(R, source, sink)} :
          /\ res.meet # None
          /\ \E p \in {PathThrough(res, source, sink)} :
             \E f \in {PathBottleneck(R, p, 1, R.inf)} :
                /\ path' = p
                /\ bottleneck' = f
                /\ IF f * 2 > R.inf
                   THEN /\ pc' = "raised" /\ error' = Unbounded
                        /\ UNCHANGED <<R, flow_value, rounds>>
                   ELSE /\ R' = augment(R, p, f)
                        /\ flow_value' = flow_value + f
                        /\ rounds' = rounds + 1
                        /\ UNCHANGED <<pc, error>>
    /\ UNCHANGED <<timers, animVars, app, edges, source, sink, cap_map, G, flow_dict>>

\* the pass of the while loop that finds no path and breaks
Saturate ==
    /\ pc = "augmenting"
    /\ bidirectional_bfs(R, source, sink).meet = None
    /\ pc' = "saturated"
    /\ UNCHANGED <<timers, animVars, app, edges, source, sink, cap_map, G, R, flow_value,
                   flow_dict, error, path, bottleneck, rounds>>

\* build_flow_dict and the return of (flow_value, flow_dict, G)
ExtractFlow ==
    /\ pc = "saturated"
    /\ flow_dict' = build_flow_dict(G, R)
    /\ pc' = "returned"
    /\ UNCHANGED <<timers, animVars, app, edges, source, sink, cap_map, G, R, flow_value, error,
                   path, bottleneck, rounds>>

\* the worker hands the result, or the caught exception, to the UI
WorkerFinish ==
    /\ pc \in {"returned", "raised"}
    /\ pc' = IF pc = "returned" THEN "shown" ELSE "error_shown"
    /\ timers' = After(IF pc = "returned" THEN UpdateUi(solve_no, G)
                       ELSE ErrorBox(solve_no))
    /\ UNCHANGED <<animVars, app, edges, source, sink, cap_map, G, R, flow_value,
                   flow_dict, error, path, bottleneck, rounds>>

SolveSteps ==
    \/ EnterFlowFunc
    \/ AugmentStep
    \/ Saturate
    \/ ExtractFlow

Next ==
    \/ WorkerStart
    \/ AggregateCapacities
    \/ BuildGraph
    \/ SolveSteps
    \/ WorkerFinish

NextRoot ==
    \/ WorkerStart
    \/ BuildGraphRoot
    \/ SolveSteps
    \/ WorkerFinish

\* src/src/network_flow_app.py
Spec == Init /\ [][Next]_vars
\* the same, the worker thread running to its end
SpecFair == Init /\ [][Next]_vars /\ WF_vars(Next)
\* src/network_flow_app.py
SpecRoot == InitRoot /\ [][NextRoot]_vars

(* ======================================================================= *)
(* The Tk main loop: the callbacks the workers and the animation schedule  *)
(* ======================================================================= *)
\* what the solver and its worker own
solveVars == <<app, edges, source, sink, pc, cap_map, G, R, flow_value,
               flow_dict, error, path, bottleneck, rounds>>

\* the edge lists present in the list box when Solve is clicked
AnimInputs == { << <<"S", "T", 1>> >>,
                << <<"S", "A", 1>>, <<"A", "T", 1>> >>,
                DiamondNet }

\* the body of animate_step in the closure cb, run when self._animate_index
\* is idx and the canvas holds the highlights cv: past the end of its edge
\* list it returns; otherwise it highlights edges[idx], adds 1 to the index
\* and schedules itself again
StepOf(cb, idx, cv) ==
    IF idx >= Len(cb.edges)
    THEN [animate_index |-> idx, canvas |-> cv, again |-> FALSE]
    ELSE [animate_index |-> idx + 1,
          canvas |-> Append(cv, [solve |-> cb.solve, edge |-> cb.edges[idx + 1]]),
          again |-> TRUE]

\* the Solve button, clicked once the previous worker has ended and the main
\* loop has run what that worker scheduled with delay 0 (an animation may
\* still be waiting for its 400 ms): a new worker thread over the current
\* edge list and entries
start_solve_thread ==
    /\ pc \in {"shown", "error_shown"}
    /\ \A cb \in timers : cb.fn = "animate_step"
    /\ solve_no < MaxSolves
    /\ solve_no' = solve_no + 1
    /\ edges' \in AnimInputs
    /\ \E q \in Queries : source' = q[1] /\ sink' = q[2]
    /\ pc' = "ready"
    /\ cap_map' = <<>>
    /\ G' = EmptyDiGraph
    /\ R' = EmptyResidual
    /\ flow_value' = NoValue
    /\ flow_dict' = NoDict
    /\ error' = None
    /\ path' = <<>>
    /\ bottleneck' = 0
    /\ rounds' = 0
    /\ UNCHANGED <<app, timers, animate_index, canvas, shown_solve, shown_edges>>

\* the main loop runs a scheduled update_ui_after_solve: ax.clear(), the
\* base graph, edges = list(G.edges()), self._animate_index = 0 and the
\* first animate_step(), called directly
update_ui_after_solve ==
    \E cb \in timers :
        /\ cb.fn = "update_ui_after_solve"
        /\ shown_solve' = cb.solve
        /\ shown_edges' = cb.edges
        /\ \E st \in {StepOf(AnimateStep(cb.solve, cb.edges), 0, <<>>)} :
              /\ animate_index' = st.animate_index
              /\ canvas' = st.canvas
              /\ timers' = (timers \ {cb}) \cup
                    (IF st.again THEN {AnimateStep(cb.solve, cb.edges)} ELSE {})
        /\ UNCHANGED <<solve_no, solveVars>>

\* the main loop runs a scheduled animate_step, of whichever solve
animate_step ==
    \E cb \in timers :
        /\ cb.fn = "animate_step"
        /\ \E st \in {StepOf(cb, animate_index, canvas)} :
              /\ animate_index' = st.animate_index
              /\ canvas' = st.canvas
              /\ timers' = IF st.again THEN timers ELSE timers \ {cb}
        /\ UNCHANGED <<solve_no, shown_solve, shown_edges, solveVars>>

\* the main loop runs a scheduled messagebox.showerror
showerror ==
    \E cb \in timers :
        /\ cb.fn = "showerror"
        /\ timers' = timers \ {cb}
        /\ UNCHANGED <<animVars, solveVars>>

InitAnim == Init /\ edges \in AnimInputs

NextAnim ==
    \/ WorkerStart
    \/ AggregateCapacities
    \/ BuildGraph
    \/ SolveSteps
    \/ WorkerFinish
    \/ start_solve_thread
    \/ update_ui_after_solve
    \/ animate_step
    \/ showerror

\* src/src/network_flow_app.py with its main loop, Solve clicked again
SpecAnim == InitAnim /\ [][NextAnim]_vars

(* ======================================================================= *)
(* The input as the caller declared it, computed from edges alone          *)
(* ======================================================================= *)
DeclaredPairs(es) == {<<es[k][1], es[k][2]>> : k \in 1 .. Len(es)}
InputNodes(es) == {es[k][1] : k \in 1 .. Len(es)} \cup {es[k][2] : k \in 1 .. Len(es)}
NonNegative(es) == \A k \in 1 .. Len(es) : es[k][3] >= 0

\* the sum of the capacities declared for the ordered pair (u, v)
RECURSIVE TotalCap(_, _, _, _)
TotalCap(es, i, u, v) ==
    IF i > Len(es) THEN 0
    ELSE (IF es[i][1] = u /\ es[i][2] = v THEN es[i][3] ELSE 0)
         + TotalCap(es, i + 1, u, v)

RECURSIVE SetSum(_, _)
SetSum(S, f) ==
    IF S = {} THEN 0
    ELSE LET x == CHOOSE y \in S : TRUE IN f[x] + SetSum(S \ {x}, f)

ValidInput ==
    /\ NonNegative(edges)
    /\ source # sink
    /\ source \in InputNodes(edges)
    /\ sink \in InputNodes(edges)

Finished == pc \in {"shown", "error_shown"}
Solved == pc \in {"returned", "shown"}
Solving == pc \in {"augmenting", "saturated", "returned", "shown"}

\* capacity leaving the node set X, over the declared pairs
CutCapacity(X) ==
    LET crossing == {p \in DeclaredPairs(edges) : p[1] \in X /\ p[2] \notin X}
    IN SetSum(crossing, [p \in crossing |-> TotalCap(edges, 1, p[1], p[2])])

SourceSides ==
    {X \cup {source} : X \in SUBSET (InputNodes(edges) \ {source, sink})}

MinCutCapacity ==
    LET caps == {CutCapacity(X) : X \in SourceSides}
    IN CHOOSE m \in caps : \A c \in caps : m <= c

(* ======================================================================= *)
(* Claims                                                                  *)
(* ======================================================================= *)

\* C1: for every valid input (non-negative capacities, source and sink
\* distinct and both endpoints of declared edges) the solve returns, and the
\* flow value it returns is the minimum, over the node sets that hold the
\* source and not the sink, of the summed declared capacity leaving the set.
C1_MaxFlowEqualsMinCut ==
    ValidInput =>
        /\ pc # "error_shown" /\ pc # "raised"
        /\ Solved => flow_value = MinCutCapacity

\* C1 case: a valid input with a duplicate pair and a path that needs two
\* augmentations has been solved
C1_Witness ==
    /\ ValidInput /\ pc = "shown" /\ rounds >= 2 /\ flow_value >= 4

\* C2 as stated: for every declared pair, originalCapacity - final residual
\* is the reported flow and lies in [0, originalCapacity], also when both
\* directions are declared.
C2_CapMinusResidualInRange ==
    (Solved /\ ValidInput) =>
        \A p \in DeclaredPairs(edges) :
            LET c == TotalCap(edges, 1, p[1], p[2])
                viaResidual == c - Residual(R, p[1], p[2])
            IN viaResidual >= 0 /\ viaResidual <= c

\* C2 amended: the flow reported for a declared pair is originalCapacity -
\* final residual where that is positive and 0 otherwise, every reported
\* entry belongs to a declared pair, and it lies in [0, originalCapacity],
\* also when both directions are declared.
C2_ReportedFlowInRange ==
    (Solved /\ ValidInput) =>
        /\ DOMAIN flow_dict = DeclaredPairs(edges)
        /\ \A p \in DeclaredPairs(edges) :
            LET c == TotalCap(edges, 1, p[1], p[2])
                viaResidual == c - Residual(R, p[1], p[2])
            IN /\ flow_dict[p] >= 0 /\ flow_dict[p] <= c
               /\ p[1] # p[2] =>
                    flow_dict[p] = IF viaResidual > 0 THEN viaResidual ELSE 0

\* C2 case: both (A,B) and (B,A) are declared and the flow runs over (B,A)
C2_Witness ==
    /\ Solved /\ ValidInput
    /\ {<<"A", "B">>, <<"B", "A">>} \subseteq DeclaredPairs(edges)
    /\ flow_dict[<<"B", "A">>] > 0
    /\ Residual(R, "A", "B") > TotalCap(edges, 1, "A", "B")

InFlow(n) ==
    SetSum({p \in DOMAIN flow_dict : p[2] = n /\ p[1] # n}, flow_dict)

OutFlow(n) ==
    SetSum({p \in DOMAIN flow_dict : p[1] = n /\ p[2] # n}, flow_dict)

\* C3: in the flow assignment a solve returns for a valid input, every node
\* other than the source and the sink has as much reported flow coming in
\* as going out.
C3_FlowConservation ==
    (Solved /\ ValidInput) =>
        \A n \in InputNodes(edges) \ {source, sink} : InFlow(n) = OutFlow(n)

\* C3 case: flow passes through an inner node that has two ways in or out
C3_Witness ==
    /\ Solved /\ ValidInput
    /\ \E n \in InputNodes(edges) \ {source, sink} :
        /\ InFlow(n) >= 2
        /\ Cardinality({p \in DOMAIN flow_dict : p[1] = n /\ flow_dict[p] > 0}) >= 2

\* C4 as stated: the network (S,A,3), (S,B,2), (A,T,2), (B,T,3), (A,B,1)
\* solved from S to T has maximum flow 4.
C4_DiamondFlowIsFour ==
    (edges = DiamondNet /\ source = "S" /\ sink = "T" /\ Finished) =>
        pc = "shown" /\ flow_value = 4

\* C4 amended: the network (S,A,3), (S,B,2), (A,T,2), (B,T,3), (A,B,1) solved
\* from S to T has maximum flow 5 (S-A-T 2, S-B-T 2, S-A-B-T 1).
C4_DiamondFlowIsFive ==
    (edges = DiamondNet /\ source = "S" /\ sink = "T" /\ Finished) =>
        pc = "shown" /\ flow_value = 5

\* C4 case: the diamond network has been solved from S to T
C4_Witness ==
    edges = DiamondNet /\ source = "S" /\ sink = "T" /\ pc = "shown"

NoResult ==
    /\ pc \notin {"augmenting", "saturated", "returned", "shown"}
    /\ rounds = 0
    /\ R = EmptyResidual
    /\ flow_value = NoValue
    /\ flow_dict = NoDict

EntriesFilled == source # "" /\ sink # ""

C6_UnknownNodeFailsFast ==
    (EntriesFilled /\ NonNegative(edges)
        /\ (source \notin InputNodes(edges) \/ sink \notin InputNodes(edges))) =>
        /\ NoResult
        /\ pc \in {"raised", "error_shown"} => error = UnknownNode
        /\ Finished => pc = "error_shown"

\* C6 case: the source is declared, the sink is not, and the solve failed
C6_Witness ==
    /\ source \in InputNodes(edges) /\ sink \notin InputNodes(edges)
    /\ sink # "" /\ source # sink /\ NonNegative(edges)
    /\ pc = "error_shown" /\ error = UnknownNode

\* C7: if any triple has a negative capacity, wherever it stands, the solve
\* fails with InvalidCapacity during aggregation: no graph node or edge is
\* created, no max-flow computation is started, no flow value is returned.
C7_NegativeCapacityRejected ==
    (EntriesFilled /\ ~NonNegative(edges) /\ pc \notin {"ready", "solving"}) =>
        /\ pc \in {"raised", "error_shown"}
        /\ error = InvalidCapacity
        /\ G = EmptyDiGraph
        /\ NoResult

\* C7 case: the negative capacity follows valid triples and the solve ended
C7_Witness ==
    /\ Len(edges) >= 2 /\ edges[1][3] > 0 /\ edges[Len(edges)][3] < 0
    /\ EntriesFilled /\ Finished

(* ---------------- the solve as a function of its input ----------------- *)
\* the while loop of edmonds_karp_core run to its end
RECURSIVE RunAugmenting(_, _, _, _)
RunAugmenting(r0, s, t, fv) ==
    Bind(r0, LAMBDA r :
        Bind(bidirectional_bfs(r, s, t), LAMBDA res :
            IF res.meet = None THEN [R |-> r, flow_value |-> fv]
            ELSE Bind(PathThrough(res, s, t), LAMBDA p :
                    Bind(PathBottleneck(r, p, 1, r.inf), LAMBDA f :
                        RunAugmenting(augment(r, p, f), s, t, fv + f)))))

\* what solve_max_flow returns for non-negative triples and s # t in G
SolveNetwork(es, s, t) ==
    LET g == AddEdges(EmptyDiGraph, Aggregate(es, 1, <<>>).cap_map, 1)
        fin == RunAugmenting(build_residual_network(g), s, t, 0)
    IN [flow_value |-> fin.flow_value, flow_dict |-> build_flow_dict(g, fin.R),
        G |-> g]

\* the same network declared with one triple per ordered pair, the pairs in
\* the order of their first mention
RECURSIVE MergedDeclaration(_, _, _)
MergedDeclaration(es, i, acc) ==
    IF i > Len(es) THEN acc
    ELSE LET u == es[i][1]
             v == es[i][2]
         IN MergedDeclaration(es, i + 1,
                IF \E k \in 1 .. Len(acc) : acc[k][1] = u /\ acc[k][2] = v
                THEN acc
                ELSE Append(acc, <<u, v, TotalCap(es, 1, u, v)>>))

\* es with the triples at positions i and i+1 exchanged
SwapAt(es, i) ==
    [k \in 1 .. Len(es) |->
        IF k = i THEN es[i + 1] ELSE IF k = i + 1 THEN es[i] ELSE es[k]]

GraphBuilt == pc \in {"graph", "augmenting", "saturated", "returned", "shown"}

\* C8: for non-negative triples the solved network has exactly one edge per
\* declared ordered pair, its capacity the sum of the capacities declared
\* for that pair (never that of the reverse pair), whatever the order of the
\* triples; the network, the flow value and the flow assignment are those of
\* the input that declares every pair once with its summed capacity.
C8_DuplicatesAreSummed ==
    (NonNegative(edges) /\ EntriesFilled) =>
        /\ pc \notin {"ready", "solving", "aggregated"} =>
              (GraphBuilt \/ G # EmptyDiGraph \/ edges = <<>> \/ Finished \/ pc = "raised")
        /\ (GraphBuilt \/ G # EmptyDiGraph) =>
            /\ EdgeSet(G) = DeclaredPairs(edges)
            /\ \A e \in DeclaredPairs(edges) :
                    G.capacity[e] = TotalCap(edges, 1, e[1], e[2])
            /\ \A i \in 1 .. Len(edges) - 1 :
                 \A e \in DeclaredPairs(edges) :
                    G.capacity[e] =
                        CapGet(Aggregate(SwapAt(edges, i), 1, <<>>).cap_map, e[1], e[2])
            /\ G = AddEdges(EmptyDiGraph, MergedDeclaration(edges, 1, <<>>), 1)
        /\ Solved =>
            LET once == SolveNetwork(MergedDeclaration(edges, 1, <<>>), source, sink)
            IN /\ flow_value = once.flow_value
               /\ flow_dict = once.flow_dict
               /\ G = once.G

\* C8 case: a pair declared twice, with another pair between, was solved
C8_Witness ==
    /\ Solved /\ Len(edges) >= 3
    /\ edges[1][1] = edges[3][1] /\ edges[1][2] = edges[3][2]
    /\ edges[1][3] > 0 /\ edges[3][3] > edges[1][3]
    /\ flow_value > edges[3][3]

(* ---------------- the engine ------------------------------------------- *)
\* the nodes reachable from those of S over arcs of positive residual
RECURSIVE ResidualReach(_)
ResidualReach(S) ==
    LET more == S \cup {v \in AllNodes : \E u \in S : Residual(R, u, v) > 0}
    IN IF more = S THEN S ELSE ResidualReach(more)

\* a pass that stays in Augmenting adds its positive bottleneck to the total
AugmentationIsPositive ==
    (pc = "augmenting" /\ pc' = "augmenting") =>
        (bottleneck' > 0 /\ flow_value' = flow_value + bottleneck'
            /\ rounds' = rounds + 1)

\* once Saturated, the residual network and the total no longer change
SaturatedStops ==
    pc \in {"saturated", "returned", "shown"} =>
        (pc' \in {"returned", "shown"} /\ R' = R /\ flow_value' = flow_value
            /\ rounds' = rounds)

\* the number of augmentations stays within nodes * edges, a bound in which
\* no capacity appears
RoundsBounded ==
    rounds <= Cardinality(InputNodes(edges)) * Cardinality(DeclaredPairs(edges))

\* C9: for every valid input the engine enters Augmenting and eventually
\* reaches Saturated, after which nothing is augmented, within a number of
\* augmentations bounded by nodes * edges whatever the capacities; it is
\* Saturated only when no source-to-sink path over arcs of positive residual
\* exists, and every augmentation adds a strictly positive bottleneck to the
\* total.
C9_EngineSaturates ==
    /\ [](pc = "saturated" => sink \notin ResidualReach({source}))
    /\ []RoundsBounded
    /\ [][AugmentationIsPositive]_vars
    /\ [][SaturatedStops]_vars
    /\ [](pc = "raised" => error # Unbounded)
    /\ (ValidInput /\ pc = "ready") ~> (pc = "augmenting")
    /\ (pc = "augmenting") ~> (pc = "saturated")

\* C9 case: the engine saturated on capacities of 100 after two augmentations
C9_Witness ==
    pc = "saturated" /\ edges = BigCapNet /\ rounds = 2 /\ flow_value = 200

\* the flow the extractor would report for (u, v) in the current state
FlowNow(u, v) ==
    LET fd == build_flow_dict(G, R)
    IN IF <<u, v>> \in DOMAIN fd THEN fd[<<u, v>>] ELSE 0

AugmentedPath(p, f) ==
    \A i \in 1 .. Len(p) - 1 :
        /\ Residual(R', p[i], p[i + 1]) = Residual(R, p[i], p[i + 1]) - f
        /\ Residual(R', p[i + 1], p[i]) = Residual(R, p[i + 1], p[i]) + f

\* an augmentation runs along a source-to-sink path and moves its bottleneck
AugmentationMovesBottleneck ==
    rounds' # rounds =>
        (Len(path') >= 2 /\ path'[1] = source /\ path'[Len(path')] = sink
            /\ AugmentedPath(path', bottleneck'))

\* C10: in every state of a solve, for every declared edge (u,v) whose
\* reverse is not declared, residual(u,v) + flow(u,v) = originalCapacity(u,v)
\* and residual(v,u) = flow(u,v); each augmentation takes the bottleneck from
\* the residual of every arc of its path and adds it to the reverse arc's.
C10_ResidualBookkeeping ==
    /\ [](Solving =>
            \A e \in DeclaredPairs(edges) :
                <<e[2], e[1]>> \notin DeclaredPairs(edges) =>
                    /\ Residual(R, e[1], e[2]) + FlowNow(e[1], e[2])
                         = TotalCap(edges, 1, e[1], e[2])
                    /\ Residual(R, e[2], e[1]) = FlowNow(e[1], e[2]))
    /\ [][AugmentationMovesBottleneck]_vars

\* C10 case: the second augmentation ran over the reverse of (A,B) and took
\* back the flow the first one had put on it
C10_Witness ==
    /\ pc = "augmenting" /\ rounds = 2
    /\ OnPath(path, "B", "A")
    /\ <<"A", "B">> \in DeclaredPairs(edges)
    /\ <<"B", "A">> \notin DeclaredPairs(edges)
    /\ FlowNow("A", "B") = 0 /\ Residual(R, "A", "B") = 1


(* ---------------- the edge animation ----------------------------------- *)
\* no animate_step is waiting in the main loop
AnimationStopped == \A cb \in timers : cb.fn # "animate_step"

\* C11: the highlights on the canvas are edges of the solve it shows, each
\* once and in the order of list(G.edges()), none drawn by the animation of
\* an earlier solve, and when the animation has stopped every edge of that
\* graph is highlighted; whatever the order in which the timer callbacks
\* run, also when a second solve completes while the first still animates.
C11_AnimationHighlightsOnce ==
    /\ \A i \in 1 .. Len(canvas) :
          /\ canvas[i].solve = shown_solve
          /\ i <= Len(shown_edges)
          /\ canvas[i].edge = shown_edges[i]
    /\ (shown_solve # 0 /\ AnimationStopped) => Len(canvas) = Len(shown_edges)

\* the same for the first solve alone, no second one having been started
C11_SingleSolveAnimation ==
    solve_no = 1 => C11_AnimationHighlightsOnce

\* a lone solve of the diamond network has been animated to its end
C11_SingleSolveWitness ==
    /\ solve_no = 1 /\ shown_solve = 1 /\ AnimationStopped
    /\ Len(shown_edges) = 5 /\ Len(canvas) = 5

====
